---------------------------- MODULE Spec2Model ----------------------------
(***************************************************************************)
(* A model of praia's filesystem issue store (src/src/db.rs).              *)
(*                                                                         *)
(* The disk is the root directory: the issue directories, the comment      *)
(* files in them and index.txt.  The open store is FsDbInner behind its    *)
(* RwLock.  Every Db operation is an action (or, where it holds the lock   *)
(* over several filesystem calls, a short chain of actions) of a thread.   *)
(* Text (file contents, index.txt) is a sequence of characters; a          *)
(* character is a one-character string.                                    *)
(***************************************************************************)
EXTENDS Integers, Sequences, FiniteSets, TLC

\* ------------------------------------------------------------- bounds
\* create_issue is not offered once issue_count reaches MaxIssues.
MaxIssues == 3
\* create_comment is not offered on an issue whose counter reached MaxComments.
MaxComments == 3
\* The number of injected filesystem failures (disk full, permission, ...).
MaxFaults == 1
\* The number of issue directories removed from outside the program.
MaxRemovals == 1
\* The number of times a store is opened on the root.
MaxOpens == 2

Threads == {"t1", "t2"}
MainThread == "t1"

IssueIds == 0..(MaxIssues - 1)
CommentIds == 0..(MaxComments - 1)

\* The texts passed to create_issue and to create_comment.
Hello == <<"h", "i">>
World == <<"w">>
TwoLines == <<"a", "\n", "b">>
IssueTexts == {Hello, TwoLines}
CommentTexts == {World}

\* ------------------------------------------------------------- text
Digit == <<"0", "1", "2", "3", "4", "5", "6", "7", "8", "9">>

IsDigit(c) == \E d \in 1..10 : Digit[d] = c

DigitVal(c) == (CHOOSE d \in 1..10 : Digit[d] = c) - 1

\* u32's Display: the decimal digits, no sign, no leading zeros.
RECURSIVE U32ToString(_)
U32ToString(n) ==
    IF n < 10 THEN <<Digit[n + 1]>>
    ELSE U32ToString(n \div 10) \o <<Digit[(n % 10) + 1]>>

\* The value of a digit string, or -1 when a character is no digit.
RECURSIVE DigitsVal(_)
DigitsVal(s) ==
    IF s = <<>> THEN 0
    ELSE LET c == s[Len(s)]
             r == DigitsVal(SubSeq(s, 1, Len(s) - 1))
         IN IF r < 0 \/ ~IsDigit(c) THEN -1
            ELSE r * 10 + DigitVal(c)

\* str::parse::<u32>: an optional "+", then one or more digits; -1 stands
\* for Err.  The ids of the model have one digit; a string of ten digits or
\* more, which may leave u32's range, is taken for an Err.
ParseU32(s) ==
    LET body == IF s # <<>> /\ s[1] = "+" THEN Tail(s) ELSE s
    IN IF body = <<>> \/ Len(body) > 9 THEN -1 ELSE DigitsVal(body)

IsSpace(c) == c \in {" ", "\n", "\t", "\r"}

\* str::trim_end: the text without its trailing whitespace.
RECURSIVE TrimEnd(_)
TrimEnd(s) ==
    IF s = <<>> THEN s
    ELSE IF IsSpace(s[Len(s)]) THEN TrimEnd(SubSeq(s, 1, Len(s) - 1))
    ELSE s

\* BufRead::read_line: the text up to and including the first newline
\* (all of it when it holds none).
ReadLine(s) ==
    IF \E k \in 1..Len(s) : s[k] = "\n"
    THEN SubSeq(s, 1, CHOOSE k \in 1..Len(s) :
                         s[k] = "\n" /\ \A j \in 1..(k - 1) : s[j] # "\n")
    ELSE s

\* What read_line leaves in the reader.
AfterLine(s) == SubSeq(s, Len(ReadLine(s)) + 1, Len(s))

\* The lines read_line yields, one call after another, until it returns 0.
RECURSIVE Lines(_)
Lines(s) == IF s = <<>> THEN <<>> ELSE <<ReadLine(s)>> \o Lines(AfterLine(s))

\* str::split(" "): the pieces between single spaces.
RECURSIVE Split(_)
Split(s) ==
    IF \E k \in 1..Len(s) : s[k] = " "
    THEN LET k == CHOOSE k \in 1..Len(s) :
                     s[k] = " " /\ \A j \in 1..(k - 1) : s[j] # " "
         IN <<SubSeq(s, 1, k - 1)>> \o Split(SubSeq(s, k + 1, Len(s)))
    ELSE <<s>>

\* ------------------------------------------------------------- index
RECURSIVE Concat(_)
Concat(ss) == IF ss = <<>> THEN <<>> ELSE Head(ss) \o Concat(Tail(ss))

SetMax(S) == CHOOSE m \in S : \A x \in S : x <= m

\* The orders in which HashMap::iter may visit the keys S.
Orders(S) ==
    {o \in [1..Cardinality(S) -> S] : \A a, b \in DOMAIN o : o[a] = o[b] => a = b}

\* What save_index writes for the index (ic, cc), the map visited in order o.
IndexText(ic, cc, o) ==
    U32ToString(ic) \o <<"\n">>
    \o Concat([n \in DOMAIN o |->
                 U32ToString(o[n]) \o <<" ">> \o U32ToString(cc[o[n]]) \o <<"\n">>])

IndexLine_Swapped(buf) ==
    LET it == Split(buf)
        k == ParseU32(it[1])
        v == IF Len(it) >= 2 THEN ParseU32(TrimEnd(it[2])) ELSE -1
    IN [ok |-> k >= 0 /\ v >= 0 /\ Len(it) = 2, k |-> v, v |-> k]

\* One "k v" line of index.txt: [ok, k, v].
IndexLine(buf) ==
    LET it == Split(buf)
        k == ParseU32(it[1])
        v == IF Len(it) >= 2 THEN ParseU32(TrimEnd(it[2])) ELSE -1
    IN [ok |-> k >= 0 /\ v >= 0 /\ Len(it) = 2, k |-> k, v |-> v]

\* HashMap::insert of the parsed lines, first to last.
RECURSIVE InsertAll(_, _)
InsertAll(cc, ls) ==
    IF ls = <<>> THEN cc
    ELSE InsertAll((IndexLine(Head(ls)).k :> IndexLine(Head(ls)).v) @@ cc, Tail(ls))

\* read_index: [ok, issue_count, comment_count] from the text of index.txt;
\* ok = FALSE is Err(BadIndex).
ReadIndex(text) ==
    LET ls == Lines(text)
        ic == IF ls = <<>> THEN -1 ELSE ParseU32(TrimEnd(ls[1]))
        rest == IF ls = <<>> THEN <<>> ELSE Tail(ls)
        ok == ic >= 0 /\ \A n \in DOMAIN rest : IndexLine(rest[n]).ok
    IN [ok |-> ok,
        issue_count |-> IF ok THEN ic ELSE 0,
        comment_count |-> IF ok THEN InsertAll(<<>>, rest) ELSE <<>>]

ScanIndex_CountEntries(ds, fs) ==
    [issue_count |-> Cardinality(ds),
     comment_count |->
        [i \in ds |-> Cardinality({q \in DOMAIN fs : q[1] = i})]]

ScanIndex_MaxNotNext(ds, fs) ==
    [issue_count |-> IF ds = {} THEN 0 ELSE SetMax(ds),
     comment_count |->
        [i \in ds |->
            LET cs == {p[2] : p \in {q \in DOMAIN fs : q[1] = i}}
            IN IF cs = {} THEN 0 ELSE SetMax(cs)]]

\* create_index's scan of the tree (ds: the issue directories, fs: the files):
\* [issue_count, comment_count].
ScanIndex(ds, fs) ==
    [issue_count |-> IF ds = {} THEN 0 ELSE SetMax({i + 1 : i \in ds}),
     comment_count |->
        [i \in ds |->
            LET cs == {p[2] : p \in {q \in DOMAIN fs : q[1] = i}}
            IN IF cs = {} THEN 0 ELSE SetMax({c + 1 : c \in cs})]]

\* ------------------------------------------------------------- state
VARIABLES
    dirs,           \* the issue directories under the root
    files,          \* <<issue, comment>> -> text, for every comment file
    indexFile,      \* index.txt: [exists, text]
    opened,         \* whether an FsDb is open on the root
    issue_count,    \* FsDbInner.issue_count
    comment_count,  \* FsDbInner.comment_count
    guards,         \* thread -> the RwLock guard it holds: none, read, write
    pc,             \* thread -> its place in the operation it runs
    loc,            \* thread -> the locals of that operation
    ret,            \* thread -> what its last call returned
    out,            \* thread -> the elements its live sequence has yielded
    faultsLeft,     \* filesystem failures left to inject
    removalsLeft,   \* outside removals left
    opensLeft,      \* opens left
    hEmptyStart,    \* history: the store was opened on an empty root
    hIssues,        \* history: create_issue's successes since open, in order
    hComments,      \* history: issue -> create_comment's successes since open
    hIssueFailed,   \* history: a create_issue failed since open
    hCommentFailed, \* history: a create_comment failed since open
    hRemoved,       \* history: a directory was removed from outside since open
    hOpenedBy,      \* history: how the store was opened: read_index, create_index
    hSavedIndex,    \* history: the index save_index last wrote to index.txt
    allocIssues,    \* history: every issue id ever returned
    allocComments   \* history: every <<issue, comment>> id ever returned

diskVars == <<dirs, files, indexFile>>
memVars == <<opened, issue_count, comment_count>>
threadVars == <<guards, pc, loc, ret, out>>
envVars == <<faultsLeft, removalsLeft, opensLeft>>
sessVars == <<hEmptyStart, hIssues, hComments, hIssueFailed, hCommentFailed,
              hRemoved, hOpenedBy>>
allocVars == <<allocIssues, allocComments>>
histVars == <<sessVars, allocVars, hSavedIndex>>
vars == <<diskVars, memVars, threadVars, envVars, histVars>>

NoLoc == [issue_id |-> 0, comment_id |-> 0, content |-> <<>>,
          kind |-> "none", pos |-> 0, end |-> 0, done |-> FALSE, clean |-> TRUE]
NoRet == [kind |-> "None"]
\* Err(FsError) from operation op on issue i: NoIssue(i), or Io of an
\* io::Error of kind NotFound, AlreadyExists or Other.
Err(op, e, i) == [kind |-> "Err", op |-> op, err |-> e, issue_id |-> i]
Index(ic, cc) == [issue_count |-> ic, comment_count |-> cc]

InitWith(ds, fs, faults, removals, opens) ==
    /\ dirs = ds
    /\ files = fs
    /\ indexFile = [exists |-> FALSE, text |-> <<>>]
    /\ opened = FALSE
    /\ issue_count = 0
    /\ comment_count = <<>>
    /\ guards = [t \in Threads |-> "none"]
    /\ pc = [t \in Threads |-> "idle"]
    /\ loc = [t \in Threads |-> NoLoc]
    /\ ret = [t \in Threads |-> NoRet]
    /\ out = [t \in Threads |-> <<>>]
    /\ faultsLeft = faults
    /\ removalsLeft = removals
    /\ opensLeft = opens
    /\ hEmptyStart = FALSE
    /\ hIssues = <<>>
    /\ hComments = [i \in IssueIds |-> <<>>]
    /\ hIssueFailed = FALSE
    /\ hCommentFailed = FALSE
    /\ hRemoved = FALSE
    /\ hOpenedBy = "none"
    /\ hSavedIndex = Index(0, <<>>)
    /\ allocIssues = {}
    /\ allocComments = {}

\* An empty root, and one open.
Init == InitWith({}, <<>>, MaxFaults, MaxRemovals, 1)

\* ------------------------------------------------------------- open, close
NewSession(by) ==
    /\ hOpenedBy' = by
    /\ hEmptyStart' = (dirs = {} /\ ~indexFile.exists)
    /\ hIssues' = <<>>
    /\ hComments' = [i \in IssueIds |-> <<>>]
    /\ hIssueFailed' = FALSE
    /\ hCommentFailed' = FALSE
    /\ hRemoved' = FALSE

\* FsDbInner::save_index: index.txt truncated and rewritten, the map's
\* lines in the order HashMap::iter happens to visit them.
SaveIndexFile(ic, cc) ==
    /\ \E o \in Orders(DOMAIN cc) :
          indexFile' = [exists |-> TRUE, text |-> IndexText(ic, cc, o)]
    /\ hSavedIndex' = Index(ic, cc)

\* FsDb::new: read_index when index.txt exists, else create_index, which
\* scans the tree and saves what it found.
Open ==
    /\ ~opened
    /\ opensLeft > 0
    /\ opensLeft' = opensLeft - 1
    /\ IF indexFile.exists
       THEN LET r == ReadIndex(indexFile.text)
            IN /\ opened' = r.ok
               /\ issue_count' = r.issue_count
               /\ comment_count' = r.comment_count
               /\ NewSession(IF r.ok THEN "read_index" ELSE "none")
               /\ UNCHANGED <<indexFile, hSavedIndex>>
       ELSE LET r == ScanIndex(dirs, files)
            IN /\ opened' = TRUE
               /\ issue_count' = r.issue_count
               /\ comment_count' = r.comment_count
               /\ SaveIndexFile(r.issue_count, r.comment_count)
               /\ NewSession("create_index")
    /\ UNCHANGED <<dirs, files, threadVars, faultsLeft, removalsLeft, allocVars>>

\* The FsDb is dropped (the process ends): nothing is saved.
Close ==
    /\ opened
    /\ \A t \in Threads : pc[t] = "idle"
    /\ opened' = FALSE
    /\ issue_count' = 0
    /\ comment_count' = <<>>
    /\ UNCHANGED <<diskVars, threadVars, envVars, histVars>>

\* ------------------------------------------------------------- the lock
CanWrite_AsRead(t) == \A u \in Threads : guards[u] # "write"

\* RwLock::write: granted when no guard is held.
CanWrite(t) == \A u \in Threads : guards[u] = "none"

\* RwLock::read: granted when no write guard is held.
CanRead(t) == \A u \in Threads : guards[u] # "write"

Idle(t) == opened /\ pc[t] = "idle"

\* The operation of t returns r to its caller: its guard is dropped.
Return(t, r) ==
    /\ ret' = [ret EXCEPT ![t] = r]
    /\ pc' = [pc EXCEPT ![t] = "done"]
    /\ guards' = [guards EXCEPT ![t] = "none"]
    /\ loc' = [loc EXCEPT ![t] = NoLoc]

\* An injected failure, while any is left.
Faults(kinds) == IF faultsLeft > 0 THEN {"none"} \cup kinds ELSE {"none"}

Spend(fault) == faultsLeft' = IF fault = "none" THEN faultsLeft ELSE faultsLeft - 1

\* The text write_all may leave behind when it fails: a proper prefix.
Partial(content) == {SubSeq(content, 1, n) : n \in 0..(Len(content) - 1)}

\* ------------------------------------------------------------- create_issue
NextIssueId_OnePast == issue_count + 1

\* new_issue, line 213: the id the new issue gets.
NextIssueId == issue_count

\* new_issue, line 219: the comment counter a new issue starts with.
SeedCount == 1

\* new_issue, lines 212-215: the write guard, issue_id = db.issue_count.
NewIssueLock(t, content) ==
    /\ Idle(t)
    /\ CanWrite(t)
    /\ issue_count < MaxIssues
    /\ guards' = [guards EXCEPT ![t] = "write"]
    /\ pc' = [pc EXCEPT ![t] = "ni_dir"]
    /\ loc' = [loc EXCEPT ![t] = [NoLoc EXCEPT !.issue_id = NextIssueId,
                                               !.content = content]]
    /\ UNCHANGED <<diskVars, memVars, ret, out, envVars, histVars>>

IssueFailed(t, e) ==
    /\ Return(t, Err("new_issue", e, loc[t].issue_id))
    /\ hIssueFailed' = TRUE
    /\ UNCHANGED <<out, removalsLeft, opensLeft, hEmptyStart, hIssues, hComments,
                   hCommentFailed, hRemoved, hOpenedBy, allocVars, hSavedIndex>>

NewIssueDir_CountFirst(t) ==
    /\ pc[t] = "ni_dir"
    /\ \E fault \in Faults({"create_dir"}) :
        LET id == loc[t].issue_id IN
        /\ Spend(fault)
        /\ IF id \in dirs \/ fault # "none"
           THEN /\ IssueFailed(t, IF id \in dirs THEN "AlreadyExists" ELSE "Other")
                /\ issue_count' = issue_count + 1
                /\ UNCHANGED <<diskVars, opened, comment_count>>
           ELSE /\ dirs' = dirs \cup {id}
                /\ comment_count' = (id :> SeedCount) @@ comment_count
                /\ issue_count' = issue_count + 1
                /\ pc' = [pc EXCEPT ![t] = "ni_file"]
                /\ UNCHANGED <<files, indexFile, opened, guards, loc, ret, out,
                               removalsLeft, opensLeft, histVars>>

\* new_issue, lines 217-220: create_dir, then the two counters.
NewIssueDir(t) ==
    /\ pc[t] = "ni_dir"
    /\ \E fault \in Faults({"create_dir"}) :
        LET id == loc[t].issue_id IN
        /\ Spend(fault)
        /\ IF id \in dirs \/ fault # "none"
           THEN /\ IssueFailed(t, IF id \in dirs THEN "AlreadyExists" ELSE "Other")
                /\ UNCHANGED <<diskVars, memVars>>
           ELSE /\ dirs' = dirs \cup {id}
                /\ comment_count' = (id :> SeedCount) @@ comment_count
                /\ issue_count' = issue_count + 1
                /\ pc' = [pc EXCEPT ![t] = "ni_file"]
                /\ UNCHANGED <<files, indexFile, opened, guards, loc, ret, out,
                               removalsLeft, opensLeft, histVars>>

CreateNew_Truncate(ds, fs, i, c, content, fault, part) ==
    IF i \notin ds THEN [err |-> "NotFound", fs |-> fs]
    ELSE IF fault = "open" THEN [err |-> "Other", fs |-> fs]
    ELSE IF fault = "write" THEN [err |-> "Other", fs |-> (<<i, c>> :> part) @@ fs]
    ELSE [err |-> "none", fs |-> (<<i, c>> :> content) @@ fs]

\* OpenOptions::new().create_new(true).write(true).open(path), then
\* write_all(content): [err, fs], the error ("none" for Ok) and the files
\* afterwards.
CreateNew(ds, fs, i, c, content, fault, part) ==
    IF i \notin ds THEN [err |-> "NotFound", fs |-> fs]
    ELSE IF <<i, c>> \in DOMAIN fs THEN [err |-> "AlreadyExists", fs |-> fs]
    ELSE IF fault = "open" THEN [err |-> "Other", fs |-> fs]
    ELSE IF fault = "write" THEN [err |-> "Other", fs |-> (<<i, c>> :> part) @@ fs]
    ELSE [err |-> "none", fs |-> (<<i, c>> :> content) @@ fs]

NewIssueFile_AutoSave(t) ==
    /\ pc[t] = "ni_file"
    /\ \E fault \in Faults({"open", "write"}) : \E part \in Partial(loc[t].content) :
        LET id == loc[t].issue_id
            r == CreateNew(dirs, files, id, 0, loc[t].content, fault, part) IN
        /\ fault # "write" => part = <<>>
        /\ Spend(fault)
        /\ files' = r.fs
        /\ UNCHANGED <<dirs, memVars>>
        /\ IF r.err # "none"
           THEN IssueFailed(t, r.err) /\ UNCHANGED indexFile
           ELSE /\ Return(t, [kind |-> "IssueId", id |-> id])
                /\ SaveIndexFile(issue_count, comment_count)
                /\ hIssues' = Append(hIssues, [id |-> id, content |-> loc[t].content])
                /\ allocIssues' = allocIssues \cup {id}
                /\ UNCHANGED <<out, removalsLeft, opensLeft, hEmptyStart, hComments,
                               hIssueFailed, hCommentFailed, hRemoved, hOpenedBy,
                               allocComments>>

\* new_issue, lines 222-227: comment 0 is written and the id returned.
NewIssueFile(t) ==
    /\ pc[t] = "ni_file"
    /\ \E fault \in Faults({"open", "write"}) : \E part \in Partial(loc[t].content) :
        LET id == loc[t].issue_id
            r == CreateNew(dirs, files, id, 0, loc[t].content, fault, part) IN
        /\ fault # "write" => part = <<>>
        /\ Spend(fault)
        /\ files' = r.fs
        /\ UNCHANGED <<dirs, indexFile, memVars>>
        /\ IF r.err # "none"
           THEN IssueFailed(t, r.err)
           ELSE /\ Return(t, [kind |-> "IssueId", id |-> id])
                /\ hIssues' = Append(hIssues, [id |-> id, content |-> loc[t].content])
                /\ allocIssues' = allocIssues \cup {id}
                /\ UNCHANGED <<out, removalsLeft, opensLeft, hEmptyStart, hComments,
                               hIssueFailed, hCommentFailed, hRemoved, hOpenedBy,
                               allocComments, hSavedIndex>>

\* ------------------------------------------------------------- create_comment
CommentFailed(t, issue_id, e) ==
    /\ Return(t, Err("new_comment", e, issue_id))
    /\ hCommentFailed' = TRUE
    /\ UNCHANGED <<out, removalsLeft, opensLeft, hEmptyStart, hIssues, hComments,
                   hIssueFailed, hRemoved, hOpenedBy, allocVars, hSavedIndex>>

\* new_comment, line 236: comment_count.get_mut(&issue_id) finds an entry.
HasIssue(issue_id) == issue_id \in DOMAIN comment_count

NextCommentId_OnePast(issue_id) == comment_count[issue_id] + 1

\* new_comment, line 237: the id the new comment gets.
NextCommentId(issue_id) == comment_count[issue_id]

NewCommentLock_InsertOnMiss(t, issue_id, content) ==
    /\ Idle(t)
    /\ CanWrite(t)
    /\ IF ~HasIssue(issue_id)
       THEN /\ CommentFailed(t, issue_id, "NoIssue")
            /\ comment_count' = (issue_id :> 0) @@ comment_count
            /\ UNCHANGED <<diskVars, opened, issue_count, faultsLeft>>
       ELSE /\ comment_count[issue_id] < MaxComments
            /\ guards' = [guards EXCEPT ![t] = "write"]
            /\ pc' = [pc EXCEPT ![t] = "nc_file"]
            /\ loc' = [loc EXCEPT ![t] =
                          [NoLoc EXCEPT !.issue_id = issue_id,
                                        !.comment_id = NextCommentId(issue_id),
                                        !.content = content]]
            /\ UNCHANGED <<diskVars, memVars, ret, out, envVars, histVars>>

\* new_comment, lines 232-239: the write guard, the issue's entry in
\* comment_count (NoIssue when there is none), comment_id = *ent.
NewCommentLock(t, issue_id, content) ==
    /\ Idle(t)
    /\ CanWrite(t)
    /\ IF ~HasIssue(issue_id)
       THEN /\ CommentFailed(t, issue_id, "NoIssue")
            /\ UNCHANGED <<diskVars, memVars, faultsLeft>>
       ELSE /\ comment_count[issue_id] < MaxComments
            /\ guards' = [guards EXCEPT ![t] = "write"]
            /\ pc' = [pc EXCEPT ![t] = "nc_file"]
            /\ loc' = [loc EXCEPT ![t] =
                          [NoLoc EXCEPT !.issue_id = issue_id,
                                        !.comment_id = NextCommentId(issue_id),
                                        !.content = content]]
            /\ UNCHANGED <<diskVars, memVars, ret, out, envVars, histVars>>

\* new_comment, lines 241-246: the file is written, then *ent = *ent + 1.
NewCommentFile(t) ==
    /\ pc[t] = "nc_file"
    /\ \E fault \in Faults({"open", "write"}) : \E part \in Partial(loc[t].content) :
        LET i == loc[t].issue_id
            c == loc[t].comment_id
            r == CreateNew(dirs, files, i, c, loc[t].content, fault, part) IN
        /\ fault # "write" => part = <<>>
        /\ Spend(fault)
        /\ files' = r.fs
        /\ UNCHANGED <<dirs, indexFile, opened, issue_count>>
        /\ IF r.err # "none"
           THEN /\ CommentFailed(t, i, r.err)
                /\ UNCHANGED comment_count
           ELSE /\ comment_count' = [comment_count EXCEPT ![i] = @ + 1]
                /\ Return(t, [kind |-> "CommentId", issue_id |-> i, id |-> c])
                /\ hComments' = [hComments EXCEPT ![i] =
                                    Append(@, [id |-> c, content |-> loc[t].content])]
                /\ allocComments' = allocComments \cup {<<i, c>>}
                /\ UNCHANGED <<out, removalsLeft, opensLeft, hEmptyStart, hIssues,
                               hIssueFailed, hCommentFailed, hRemoved, hOpenedBy,
                               allocIssues, hSavedIndex>>

SaveIndex_Drain(t) ==
    /\ Idle(t)
    /\ CanWrite(t)
    /\ SaveIndexFile(issue_count, comment_count)
    /\ comment_count' = <<>>
    /\ ret' = [ret EXCEPT ![t] = [kind |-> "Saved"]]
    /\ pc' = [pc EXCEPT ![t] = "done"]
    /\ UNCHANGED <<dirs, files, opened, issue_count, guards, loc, out, envVars,
                   sessVars, allocVars>>

\* FsDb::save_index: under the write guard.
SaveIndex(t) ==
    /\ Idle(t)
    /\ CanWrite(t)
    /\ SaveIndexFile(issue_count, comment_count)
    /\ ret' = [ret EXCEPT ![t] = [kind |-> "Saved"]]
    /\ pc' = [pc EXCEPT ![t] = "done"]
    /\ UNCHANGED <<dirs, files, memVars, guards, loc, out, envVars, sessVars, allocVars>>

\* The caller has taken the result of its call and goes on.
Finish(t) ==
    /\ pc[t] = "done"
    /\ pc' = [pc EXCEPT ![t] = "idle"]
    /\ ret' = [ret EXCEPT ![t] = NoRet]
    /\ UNCHANGED <<diskVars, memVars, guards, loc, out, envVars, histVars>>

\* ------------------------------------------------------------- reads
ReadOnly == UNCHANGED <<diskVars, memVars, envVars, histVars>>

\* get_issue: comment 0 of the issue, read to its end.
GetIssue(t, issue_id) ==
    /\ Idle(t)
    /\ CanRead(t)
    /\ ret' = [ret EXCEPT ![t] =
                  IF <<issue_id, 0>> \in DOMAIN files
                  THEN [kind |-> "Issue", issue_id |-> issue_id,
                        content |-> files[<<issue_id, 0>>]]
                  ELSE Err("get_issue", "NotFound", issue_id)]
    /\ pc' = [pc EXCEPT ![t] = "done"]
    /\ UNCHANGED <<guards, loc, out>>
    /\ ReadOnly

\* get_issue_comment: the comment's file, read to its end.
GetIssueComment(t, issue_id, comment_id) ==
    /\ Idle(t)
    /\ CanRead(t)
    /\ ret' = [ret EXCEPT ![t] =
                  IF <<issue_id, comment_id>> \in DOMAIN files
                  THEN [kind |-> "Comment", issue_id |-> issue_id,
                        comment_id |-> comment_id,
                        content |-> files[<<issue_id, comment_id>>]]
                  ELSE Err("get_issue_comment", "NotFound", issue_id)]
    /\ pc' = [pc EXCEPT ![t] = "done"]
    /\ UNCHANGED <<guards, loc, out>>
    /\ ReadOnly

GetIssues_GuardDropped(t) ==
    /\ Idle(t)
    /\ CanRead(t)
    /\ UNCHANGED guards
    /\ pc' = [pc EXCEPT ![t] = "iter"]
    /\ loc' = [loc EXCEPT ![t] = [NoLoc EXCEPT !.kind = "issues", !.end = issue_count]]
    /\ ret' = [ret EXCEPT ![t] = [kind |-> "Iter"]]
    /\ out' = [out EXCEPT ![t] = <<>>]
    /\ ReadOnly

\* get_issues, lines 250-253 and 292: the read guard moves into the boxed
\* iterator over 0..db.issue_count.
GetIssues(t) ==
    /\ Idle(t)
    /\ CanRead(t)
    /\ guards' = [guards EXCEPT ![t] = "read"]
    /\ pc' = [pc EXCEPT ![t] = "iter"]
    /\ loc' = [loc EXCEPT ![t] = [NoLoc EXCEPT !.kind = "issues", !.end = issue_count]]
    /\ ret' = [ret EXCEPT ![t] = [kind |-> "Iter"]]
    /\ out' = [out EXCEPT ![t] = <<>>]
    /\ ReadOnly

ListHasIssue_ByDirectory(issue_id) == issue_id \in dirs

\* get_issue_comments, line 319: db.comment_count.get(&issue_id) is Some.
ListHasIssue(issue_id) == issue_id \in DOMAIN comment_count

\* get_issue_comments, lines 316-327 and 362: for an issue the map lacks,
\* iter::once(Err(NoIssue)) and the guard dropped on return; else the guard
\* moves into the boxed iterator over 0..count.
GetIssueComments(t, issue_id) ==
    /\ Idle(t)
    /\ CanRead(t)
    /\ IF ~ListHasIssue(issue_id)
       THEN /\ loc' = [loc EXCEPT ![t] =
                          [NoLoc EXCEPT !.kind = "once", !.issue_id = issue_id, !.end = 1]]
            /\ UNCHANGED guards
       ELSE /\ loc' = [loc EXCEPT ![t] =
                          [NoLoc EXCEPT !.kind = "comments", !.issue_id = issue_id,
                                        !.end = comment_count[issue_id]]]
            /\ guards' = [guards EXCEPT ![t] = "read"]
    /\ pc' = [pc EXCEPT ![t] = "iter"]
    /\ ret' = [ret EXCEPT ![t] = [kind |-> "Iter"]]
    /\ out' = [out EXCEPT ![t] = <<>>]
    /\ ReadOnly

\* The element the closure of get_issues makes for an id whose comment 0
\* opened: its content is what one read_line reads.
IssueElem(issue_id) ==
    [kind |-> "Issue", issue_id |-> issue_id,
     content |-> ReadLine(files[<<issue_id, 0>>])]

\* The element the closure of get_issue_comments makes for a comment whose
\* file opened: its content is the file read to its end.
CommentElem(issue_id, comment_id) ==
    [kind |-> "Comment", issue_id |-> issue_id, comment_id |-> comment_id,
     content |-> files[<<issue_id, comment_id>>]]

Found_FromOne(l) ==
    {n \in (l.pos..(l.end - 1)) \ {0} :
        IF l.kind = "issues" THEN <<n, 0>> \in DOMAIN files
        ELSE <<l.issue_id, n>> \in DOMAIN files}

Found_StopAtGap(l) ==
    {n \in l.pos..(l.end - 1) :
        \A m \in l.pos..n :
            IF l.kind = "issues" THEN <<m, 0>> \in DOMAIN files
            ELSE <<l.issue_id, m>> \in DOMAIN files}

\* The ids from the iterator's position on whose file opens; filter_map
\* passes over the others (ErrorKind::NotFound => None).
Found(l) ==
    {n \in l.pos..(l.end - 1) :
        IF l.kind = "issues" THEN <<n, 0>> \in DOMAIN files
        ELSE <<l.issue_id, n>> \in DOMAIN files}

\* Iterator::next on the boxed sequence: the next element, or None.
IterNext(t) ==
    /\ pc[t] = "iter"
    /\ ~loc[t].done
    /\ LET l == loc[t] IN
       IF l.kind = "once"
       THEN IF l.pos = 0
            THEN /\ out' = [out EXCEPT ![t] = Append(@, Err("get_issue_comments", "NoIssue", l.issue_id))]
                 /\ loc' = [loc EXCEPT ![t].pos = 1]
            ELSE /\ loc' = [loc EXCEPT ![t].done = TRUE]
                 /\ UNCHANGED out
       ELSE IF Found(l) = {}
            THEN /\ loc' = [loc EXCEPT ![t].done = TRUE, ![t].pos = l.end]
                 /\ UNCHANGED out
            ELSE LET n == CHOOSE n \in Found(l) : \A m \in Found(l) : n <= m IN
                 /\ out' = [out EXCEPT ![t] =
                               Append(@, IF l.kind = "issues" THEN IssueElem(n)
                                         ELSE CommentElem(l.issue_id, n))]
                 /\ loc' = [loc EXCEPT ![t].pos = n + 1]
    /\ UNCHANGED <<guards, pc, ret>>
    /\ ReadOnly

\* The boxed sequence is dropped, and the read guard its closure owns.
IterDrop(t) ==
    /\ pc[t] = "iter"
    /\ guards' = [guards EXCEPT ![t] = "none"]
    /\ pc' = [pc EXCEPT ![t] = "idle"]
    /\ loc' = [loc EXCEPT ![t] = NoLoc]
    /\ out' = [out EXCEPT ![t] = <<>>]
    /\ ret' = [ret EXCEPT ![t] = NoRet]
    /\ ReadOnly

\* ------------------------------------------------------------- outside
\* An issue's directory, with its files, is removed from outside the
\* program; the open store's index is not told.
RemoveIssueDir(i) ==
    /\ removalsLeft > 0
    /\ i \in dirs
    /\ removalsLeft' = removalsLeft - 1
    /\ dirs' = dirs \ {i}
    /\ files' = [p \in {q \in DOMAIN files : q[1] # i} |-> files[p]]
    /\ hRemoved' = TRUE
    /\ loc' = [t \in Threads |->
                 IF pc[t] = "iter" THEN [loc[t] EXCEPT !.clean = FALSE] ELSE loc[t]]
    /\ UNCHANGED <<indexFile, memVars, guards, pc, ret, out, faultsLeft,
                   opensLeft, hEmptyStart, hIssues, hComments, hIssueFailed, hCommentFailed,
                   hOpenedBy, allocVars, hSavedIndex>>

\* index.txt is deleted from outside while no store is open.
RemoveIndex ==
    /\ ~opened
    /\ indexFile.exists
    /\ indexFile' = [exists |-> FALSE, text |-> <<>>]
    /\ UNCHANGED <<dirs, files, memVars, threadVars, envVars, histVars>>

\* ------------------------------------------------------------- specifications
Creates(t, texts) ==
    \/ \E content \in texts : NewIssueLock(t, content)
    \/ NewIssueDir(t)
    \/ NewIssueFile(t)
    \/ \E i \in IssueIds, content \in CommentTexts : NewCommentLock(t, i, content)
    \/ NewCommentFile(t)
    \/ Finish(t)

Reads(t) ==
    \/ \E i \in IssueIds : GetIssue(t, i)
    \/ \E i \in IssueIds, c \in CommentIds : GetIssueComment(t, i, c)
    \/ GetIssues(t)
    \/ \E i \in IssueIds : GetIssueComments(t, i)
    \/ IterNext(t)
    \/ IterDrop(t)

\* One store, opened on an empty root and used by one thread; the
\* filesystem may fail and issue directories may be removed from outside.
Next ==
    \/ Open
    \/ Creates(MainThread, IssueTexts)
    \/ Reads(MainThread)
    \/ \E i \in IssueIds : RemoveIssueDir(i)

Spec == Init /\ [][Next]_vars

\* One thread creates and saves; the store is closed and opened again at
\* will, and index.txt may be deleted in between.
NextReopen ==
    \/ Open
    \/ Close
    \/ Creates(MainThread, {Hello})
    \/ SaveIndex(MainThread)
    \/ RemoveIndex

InitReopen == InitWith({}, <<>>, 0, 0, MaxOpens)

SpecReopen == InitReopen /\ [][NextReopen]_vars

\* A store is opened, closed and opened again on a root that holds any
\* tree of issue directories and comment files, and no index.txt.
Trees ==
    {tr \in [ds : SUBSET IssueIds, ps : SUBSET (IssueIds \X CommentIds)] :
        \A p \in tr.ps : p[1] \in tr.ds}

InitScan ==
    \E tr \in Trees : InitWith(tr.ds, [p \in tr.ps |-> World], 0, 0, MaxOpens)

NextScan ==
    \/ Open
    \/ Close

SpecScan == InitScan /\ [][NextScan]_vars

\* Several threads use one open store; nothing fails and nothing is
\* removed.
InitConc == InitWith({}, <<>>, 0, 0, 1)

NextConc ==
    \/ Open
    \/ \E t \in Threads : Creates(t, {Hello}) \/ Reads(t)

SpecConc == InitConc /\ [][NextConc]_vars

\* One store, opened on an empty root and used by one thread that creates,
\* reads and saves the index; the filesystem may fail.
InitSess == InitWith({}, <<>>, MaxFaults, 0, 1)

NextSess ==
    \/ Open
    \/ Creates(MainThread, {Hello})
    \/ Reads(MainThread)
    \/ SaveIndex(MainThread)

SpecSess == InitSess /\ [][NextSess]_vars

\* ------------------------------------------------------------- claims
Ids(h) == [n \in DOMAIN h |-> h[n].id]
NoCreateFailed == ~hIssueFailed /\ ~hCommentFailed

\* C1: on a store opened on an empty root, as long as every create_issue
\* call has succeeded, the i-th create_issue call (from 0) has returned
\* issue id i, whatever create_comment calls came in between.
C1_IssueIdsInCallOrder ==
    (hEmptyStart /\ ~hIssueFailed) =>
        \A n \in DOMAIN hIssues : hIssues[n].id = n - 1

\* Three issues were created, with comments created before the last one.
C1_Witness ==
    /\ hEmptyStart /\ ~hIssueFailed
    /\ Len(hIssues) = 3
    /\ hComments[0] # <<>> /\ hComments[1] # <<>>
    /\ hComments[2] = <<>>
    /\ pc[MainThread] = "done" /\ ret[MainThread].kind = "IssueId"

\* C2: for every issue created by create_issue on the open store, the k-th
\* successful create_comment on it has returned k (k >= 1), whatever was
\* created on other issues; so no comment id is returned twice.
C2_CommentIdsPerIssue ==
    \A m \in DOMAIN hIssues :
        LET h == hComments[hIssues[m].id]
        IN \A k \in DOMAIN h : h[k].id = k

\* Two issues, each with comments, one of them with two.
C2_Witness ==
    /\ Len(hIssues) >= 2
    /\ Len(hComments[0]) = 2
    /\ Len(hComments[1]) = 1
    /\ pc[MainThread] = "done" /\ ret[MainThread].kind = "CommentId"

InCreate(t) == pc[t] \in {"ni_dir", "ni_file", "nc_file"}
Distinct(h) == \A m, n \in DOMAIN h : h[m].id = h[n].id => m = n

\* C3: with several threads on one open store, a create runs from reading
\* its counter to updating it under the write guard, which excludes every
\* other guard (no second create, no reader); no issue id and no
\* (issue, comment) id is returned twice.
C3_CreatesSerialized ==
    /\ \A t \in Threads : InCreate(t) =>
          /\ guards[t] = "write"
          /\ \A u \in Threads \ {t} : guards[u] = "none" /\ ~InCreate(u)
    /\ Distinct(hIssues)
    /\ \A i \in IssueIds : Distinct(hComments[i])

\* One thread is inside create_comment while the other has just got an
\* issue id, after creates of both kinds.
C3_Witness ==
    /\ pc["t2"] = "nc_file"
    /\ pc["t1"] = "done" /\ ret["t1"].kind = "IssueId"
    /\ Len(hIssues) >= 2
    /\ \E i \in IssueIds : hComments[i] # <<>>

\* The calls of C4 and no other: create_issue(Hello), create_comment(0, World).
C4_Scenario ==
    /\ hEmptyStart /\ NoCreateFailed /\ ~hRemoved
    /\ Len(hIssues) = 1 /\ hIssues[1].content = Hello
    /\ Len(hComments[0]) = 1 /\ hComments[0][1].content = World
    /\ \A i \in IssueIds \ {0} : hComments[i] = <<>>

C4_Returns ==
    /\ hIssues[1].id = 0
    /\ hComments[0][1].id = 1
    /\ \A t \in Threads :
          /\ (pc[t] = "done" /\ ret[t].kind = "Err") =>
                ~(ret[t].op = "get_issue" /\ ret[t].issue_id = 0)
          /\ (pc[t] = "done" /\ ret[t].kind = "Issue" /\ ret[t].issue_id = 0) =>
                ret[t].content = Hello
          /\ (pc[t] = "iter" /\ loc[t].issue_id = 0) => loc[t].kind # "once"

C4_Listed(t) == pc[t] = "iter" /\ loc[t].kind = "comments" /\ loc[t].issue_id = 0
                /\ loc[t].done

\* C4 as stated: after create_issue(Hello) = 0 and create_comment(0, World)
\* = 1, get_issue(0) has content Hello and list_comments(0) yields exactly
\* one Comment, comment 1 with content World.
C4_Original ==
    C4_Scenario =>
        /\ C4_Returns
        /\ \A t \in Threads : C4_Listed(t) =>
              out[t] = <<[kind |-> "Comment", issue_id |-> 0, comment_id |-> 1,
                          content |-> World]>>

\* C4, amended: ... and list_comments(0) yields exactly two Comments, comment
\* 0 with content Hello (the issue's own text), then comment 1 with content
\* World.
C4_Amended ==
    C4_Scenario =>
        /\ C4_Returns
        /\ \A t \in Threads : C4_Listed(t) =>
              out[t] = <<[kind |-> "Comment", issue_id |-> 0, comment_id |-> 0,
                          content |-> Hello],
                         [kind |-> "Comment", issue_id |-> 0, comment_id |-> 1,
                          content |-> World]>>

\* list_comments(0) has been consumed to its end in the scenario.
C4_Witness == C4_Scenario /\ C4_Listed(MainThread) /\ Len(out[MainThread]) = 2

\* get_issue(0) has returned in the scenario.
C4_WitnessGetIssue ==
    /\ C4_Scenario
    /\ pc[MainThread] = "done" /\ ret[MainThread].kind = "Issue"
    /\ ret[MainThread].issue_id = 0

NewCommentReturned(t) ==
    pc[t] = "done" /\ ret[t].kind = "Err" /\ ret[t].op = "new_comment"

C6_ExactlyWhenAbsent ==
    \A t \in Threads :
        /\ NewCommentReturned(t) =>
              (ret[t].err = "NoIssue" <=> ret[t].issue_id \notin DOMAIN comment_count)
        /\ (pc[t] = "done" /\ ret[t].kind = "CommentId") =>
              ret[t].issue_id \in DOMAIN comment_count

C6_NoEffect ==
    \A t \in Threads :
        (pc[t] # "done" /\ NewCommentReturned(t)' /\ ret'[t].err = "NoIssue") =>
            UNCHANGED <<dirs, files, indexFile, issue_count, comment_count>>

\* C6: create_comment returns NoIssue(issue_id) exactly when issue_id is
\* absent from the in-memory comment_count map, also when the issue's
\* directory is on disk; the call that returns NoIssue creates no file and
\* changes no counter.
C6_NoIssueFromCachedIndex == []C6_ExactlyWhenAbsent /\ [][C6_NoEffect]_vars

\* NoIssue for an issue whose directory is on disk: the index was loaded
\* from an index.txt older than the issue.
C6_Witness ==
    /\ NewCommentReturned(MainThread) /\ ret[MainThread].err = "NoIssue"
    /\ ret[MainThread].issue_id \in dirs
    /\ hOpenedBy = "read_index"

IssueFileIds(n) == {i \in 0..(n - 1) : <<i, 0>> \in DOMAIN files}

\* C7: a sequence of list_issues consumed while the tree is left alone has
\* yielded, in ascending id order, one Issue for each id below its position
\* whose comment-0 file exists, and nothing (no element, no error) for the
\* other ids; it covers 0..issue_count and ends at issue_count.
C7_ListIssuesSkipsGaps ==
    \A t \in Threads :
        (pc[t] = "iter" /\ loc[t].kind = "issues" /\ loc[t].clean) =>
            /\ loc[t].end = issue_count
            /\ loc[t].done => loc[t].pos = loc[t].end
            /\ Len(out[t]) = Cardinality(IssueFileIds(loc[t].pos))
            /\ \A n \in DOMAIN out[t] :
                  /\ out[t][n].kind = "Issue"
                  /\ out[t][n].issue_id \in IssueFileIds(loc[t].pos)
                  /\ \A m \in DOMAIN out[t] :
                        m < n => out[t][m].issue_id < out[t][n].issue_id

\* Issues 0, 1, 2 were created, directory 1 was removed, and list_issues
\* has ended after yielding issues 0 and 2.
C7_Witness ==
    /\ pc[MainThread] = "iter" /\ loc[MainThread].kind = "issues"
    /\ loc[MainThread].done /\ loc[MainThread].clean
    /\ Ids(hIssues) = <<0, 1, 2>> /\ dirs = {0, 2} /\ issue_count = 3
    /\ Len(out[MainThread]) = 2
    /\ out[MainThread][1].issue_id = 0 /\ out[MainThread][2].issue_id = 2

\* No create has begun since the store was opened.
Fresh ==
    /\ opened
    /\ hIssues = <<>> /\ \A i \in IssueIds : hComments[i] = <<>>
    /\ NoCreateFailed
    /\ ~InCreate(MainThread)

\* C8: a store opened from index.txt (read_index) holds the issue_count and
\* the comment_count map that save_index last wrote, in whatever order the
\* map's lines were written.
C8_SaveLoadRoundTrip ==
    (Fresh /\ hOpenedBy = "read_index") =>
        Index(issue_count, comment_count) = hSavedIndex

\* A saved index of three issues with different counts has been loaded.
C8_Witness ==
    /\ Fresh /\ hOpenedBy = "read_index"
    /\ issue_count = 3
    /\ comment_count = (0 :> 3) @@ (1 :> 1) @@ (2 :> 2)
    /\ Len(Lines(indexFile.text)) = 4
    /\ Lines(indexFile.text)[2][1] = "2"

FilesOf(i) == {c \in CommentIds : <<i, c>> \in DOMAIN files}

C9_IndexOfTree ==
    /\ issue_count = IF dirs = {} THEN 0 ELSE SetMax(dirs) + 1
    /\ DOMAIN comment_count = dirs
    /\ \A i \in dirs :
          comment_count[i] = IF FilesOf(i) = {} THEN 0 ELSE SetMax(FilesOf(i)) + 1

\* C9: a store opened on a root without index.txt has issue_count = the
\* greatest issue directory name + 1 (0 on an empty root) and, for every
\* issue directory, comment_count = its greatest file name + 1 (0 for a
\* directory without files); index.txt then exists and read_index reads this
\* index from it, so the next open loads the same index from the file.
C9_RebuildFromScan ==
    /\ (opened /\ opensLeft = MaxOpens - 1) =>
          /\ hOpenedBy = "create_index"
          /\ C9_IndexOfTree
          /\ indexFile.exists
          /\ ReadIndex(indexFile.text) =
                [ok |-> TRUE, issue_count |-> issue_count,
                 comment_count |-> comment_count]
    /\ (opened /\ opensLeft < MaxOpens - 1) =>
          /\ hOpenedBy = "read_index"
          /\ C9_IndexOfTree

\* A tree with a gap (no directory 1), a directory without files and a
\* directory without comment 0 was scanned, and the next open loaded the
\* index from index.txt.
C9_Witness ==
    /\ opened /\ hOpenedBy = "read_index"
    /\ dirs = {0, 2}
    /\ FilesOf(0) = {} /\ FilesOf(2) = {1}
    /\ issue_count = 3 /\ comment_count = (0 :> 0) @@ (2 :> 2)

C10_RebuildAboveAllocated ==
    (opened /\ hOpenedBy = "create_index") =>
        /\ \A j \in allocIssues : j < issue_count
        /\ \A p \in allocComments :
              p[1] \in DOMAIN comment_count /\ p[2] < comment_count[p[1]]

C10_NewIdAboveAll ==
    /\ Len(hIssues') = Len(hIssues) + 1 =>
          \A j \in allocIssues : j < hIssues'[Len(hIssues')].id
    /\ \A i \in IssueIds :
          Len(hComments'[i]) = Len(hComments[i]) + 1 =>
              \A p \in allocComments :
                  p[1] = i => p[2] < hComments'[i][Len(hComments'[i])].id

\* C10: every id a successful create_issue returns is greater than every
\* issue id returned before, and every id a successful create_comment
\* returns is greater than every comment id returned before for that issue,
\* across closing and reopening; after a directory-scan rebuild every
\* counter is above every id allocated so far.
C10_NoReuseAcrossRebuild ==
    []C10_RebuildAboveAllocated /\ [][C10_NewIdAboveAll]_vars

\* After a rebuild, an issue and a comment were created beyond those of the
\* session before.
C10_Witness ==
    /\ opened /\ hOpenedBy = "create_index" /\ opensLeft = 0
    /\ Len(hIssues) >= 1 /\ Cardinality(allocIssues) > Len(hIssues)
    /\ Len(hComments[0]) >= 1
    /\ Cardinality({p \in allocComments : p[1] = 0}) > Len(hComments[0])

C11_Step ==
    (opened /\ opened') =>
        /\ issue_count' >= issue_count
        /\ DOMAIN comment_count \subseteq DOMAIN comment_count'
        /\ \A i \in DOMAIN comment_count : comment_count'[i] >= comment_count[i]

\* C11: while a store is open, no step of any operation (create_issue,
\* create_comment, failed or not, a read, save_index) lowers issue_count or a
\* value of comment_count, and none removes a key of comment_count.
C11_CountersMonotone == [][C11_Step]_vars

\* After creates of both kinds, a failed create and reads, save_index has
\* returned with every counter at its bound.
C11_Witness ==
    /\ pc[MainThread] = "done" /\ ret[MainThread].kind = "Saved"
    /\ hIssueFailed /\ hComments[0] # <<>>
    /\ issue_count = MaxIssues
    /\ comment_count[0] = MaxComments
    /\ indexFile.exists

C12_Kept ==
    /\ dirs \subseteq dirs'
    /\ \A p \in DOMAIN files : p \in DOMAIN files' /\ files'[p] = files[p]

C12_Collision ==
    \A t \in Threads :
        /\ (pc[t] = "nc_file" /\ pc'[t] # "nc_file"
               /\ <<loc[t].issue_id, loc[t].comment_id>> \in DOMAIN files) =>
              /\ pc'[t] = "done"
              /\ ret'[t] = Err("new_comment", "AlreadyExists", loc[t].issue_id)
              /\ UNCHANGED <<dirs, files>>
        /\ (pc[t] = "ni_dir" /\ pc'[t] # "ni_dir" /\ loc[t].issue_id \in dirs) =>
              /\ pc'[t] = "done"
              /\ ret'[t] = Err("new_issue", "AlreadyExists", loc[t].issue_id)
              /\ UNCHANGED <<dirs, files>>

\* C12: a create_comment whose file exists already, and a create_issue
\* whose directory exists already (the store was reopened from an index.txt
\* older than the tree), returns the I/O error AlreadyExists and leaves the
\* tree as it was; no step of any create changes the content of a comment
\* file that exists or removes a file or a directory.
C12_NoOverwrite == [][C12_Kept /\ C12_Collision]_vars

\* On a store reopened from a stale index.txt, create_issue has collided
\* with a directory and create_comment has just collided with a file.
C12_Witness ==
    /\ hOpenedBy = "read_index" /\ hIssueFailed
    /\ pc[MainThread] = "done"
    /\ ret[MainThread] = Err("new_comment", "AlreadyExists", 0)
    /\ <<0, comment_count[0]>> \in DOMAIN files

\* The sequence of t is alive, over an issue the map holds, and has not
\* reported its end.
Live(t) ==
    pc[t] = "iter" /\ loc[t].kind \in {"issues", "comments"} /\ ~loc[t].done

C13_HoldsShared ==
    \A t \in Threads : Live(t) =>
        /\ guards[t] = "read"
        /\ \A u \in Threads : guards[u] # "write" /\ ~InCreate(u)
        /\ \A u \in Threads : Idle(u) => CanRead(u) /\ ~CanWrite(u)
        /\ loc[t].kind = "issues" => loc[t].end = issue_count
        /\ loc[t].kind = "comments" =>
              /\ loc[t].issue_id \in DOMAIN comment_count
              /\ loc[t].end = comment_count[loc[t].issue_id]

C13_IndexFrozen ==
    (\E t \in Threads : Live(t)) =>
        UNCHANGED <<issue_count, comment_count, hIssues, hComments>>

\* C13: while a sequence of list_issues, or of list_comments on an issue
\* the map holds, is alive and has not ended, its thread holds the read
\* guard: no thread holds the write guard or is inside a create, no create
\* returns, issue_count and comment_count do not change and equal the
\* counts the sequence was made with, and a read by another thread is
\* granted.
C13_LiveSequenceFreezesIndex == []C13_HoldsShared /\ [][C13_IndexFrozen]_vars

\* Both threads consume a sequence at once, over two issues with comments.
C13_Witness ==
    /\ Live("t1") /\ loc["t1"].kind = "issues" /\ Len(out["t1"]) = 1
    /\ Live("t2") /\ loc["t2"].kind = "comments" /\ Len(out["t2"]) = 1
    /\ issue_count >= 2 /\ loc["t2"].end >= 2

\* The sequence of t has yielded its last element and reported its end,
\* and has not been dropped.
Exhausted(t) ==
    /\ pc[t] = "iter" /\ loc[t].kind \in {"issues", "comments"}
    /\ loc[t].done /\ out[t] # <<>>

\* C14: a sequence of list_issues or list_comments that has reported its
\* end no longer blocks a writer, dropped or not: when every other sequence
\* is exhausted too and no create is under way, a create_issue or
\* create_comment that asks for the write guard is granted it.
C14_ExhaustedFreesWriters ==
    \A t \in Threads :
        (/\ Exhausted(t)
         /\ \A u \in Threads \ {t} : guards[u] = "none" \/ Exhausted(u)) =>
            \A u \in Threads \ {t} : Idle(u) => CanWrite(u)

C15_Saved(t) == pc[t] = "idle" /\ pc'[t] = "done" /\ ret'[t].kind = "Saved"

C15_Rebuilt ==
    ~opened /\ ~indexFile.exists /\ opened' /\ hOpenedBy' = "create_index"

C15_DeletedOutside == ~opened /\ ~opened' /\ ~indexFile'.exists

C15_OnlySaveWrites ==
    indexFile' # indexFile =>
        \/ \E t \in Threads : C15_Saved(t)
        \/ C15_Rebuilt
        \/ C15_DeletedOutside

C15_FileIsLastSave ==
    /\ indexFile.exists =>
          ReadIndex(indexFile.text) =
              [ok |-> TRUE, issue_count |-> hSavedIndex.issue_count,
               comment_count |-> hSavedIndex.comment_count]
    /\ (Fresh /\ hOpenedBy = "read_index") =>
          /\ issue_count = hSavedIndex.issue_count
          /\ comment_count = hSavedIndex.comment_count

\* C15: index.txt is written only by save_index and by the directory-scan
\* rebuild of an open (and deleted only from outside, while no store is
\* open): no step of create_issue or create_comment changes it.  So
\* index.txt always holds the index of the last save, and a store reopened
\* with index.txt present starts from the counts of the last save, whatever
\* was created after it.
C15_IndexSavedOnlyOnRequest == []C15_FileIsLastSave /\ [][C15_OnlySaveWrites]_vars

\* An issue and a comment were created after the last save_index; the
\* store was closed and reopened from index.txt, and holds the saved counts.
C15_Witness ==
    /\ Fresh /\ hOpenedBy = "read_index"
    /\ issue_count = 1 /\ comment_count = (0 :> 1)
    /\ dirs = {0, 1} /\ <<0, 1>> \in DOMAIN files

\* C16: whenever no thread holds the write guard, and the tree has not been
\* touched from outside, every issue id in comment_count (every id on which
\* create_comment is accepted) has its directory and its comment-0 file on
\* disk, also after create_issue calls that failed.
C16_NoPartialIssue ==
    (~hRemoved /\ \A t \in Threads : guards[t] # "write") =>
        \A i \in DOMAIN comment_count :
            i \in dirs /\ <<i, 0>> \in DOMAIN files

\* C17: on an open store whose tree has not been touched from outside,
\* between calls (no write guard held) the in-memory index equals the index
\* a directory scan of the tree as it is would compute, also after creates
\* that failed.
C17_IndexIsScanOfTree ==
    (opened /\ ~hRemoved /\ \A t \in Threads : guards[t] # "write") =>
        Index(issue_count, comment_count) = ScanIndex(dirs, files)

\* C18: every Issue that a sequence of list_issues has yielded, the tree
\* left alone meanwhile, has the content get_issue returns for that id, the
\* whole text of comment 0, which for an issue create_issue returned is
\* the text passed to create_issue, of one line or of several.
C18_ListedContentIsWhole ==
    \A t \in Threads :
        (pc[t] = "iter" /\ loc[t].kind = "issues" /\ loc[t].clean) =>
            \A n \in DOMAIN out[t] :
                LET e == out[t][n] IN
                /\ <<e.issue_id, 0>> \in DOMAIN files
                /\ e.content = files[<<e.issue_id, 0>>]
                /\ \A m \in DOMAIN hIssues :
                      hIssues[m].id = e.issue_id => e.content = hIssues[m].content

\* The create of t returns an error in this step.
CreateFails(t) == pc[t] # "done" /\ pc'[t] = "done" /\ ret'[t].kind = "Err"
                  /\ ret'[t].op \in {"new_issue", "new_comment"}

\* The index the create of t found when it took the write guard: nothing
\* but its own steps has changed the index since, and of these only
\* new_issue's, after create_dir, has.
IndexAtCall(t) ==
    IF pc[t] = "ni_file"
    THEN Index(loc[t].issue_id,
               [i \in DOMAIN comment_count \ {loc[t].issue_id} |-> comment_count[i]])
    ELSE Index(issue_count, comment_count)

C19_Step ==
    \A t \in Threads :
        CreateFails(t) => Index(issue_count', comment_count') = IndexAtCall(t)

\* C19: when a create_issue or create_comment call returns an error
\* (NoIssue, or an I/O error at whichever filesystem step), issue_count and
\* comment_count are what they were when the call began.
C19_FailedCreateKeepsIndex == [][C19_Step]_vars

\* The directory named issue_count exists: create_issue collides.
IssueStuck == opened /\ issue_count \in dirs

\* The file named comment_count[i] exists: create_comment on i collides.
CommentStuck(i) ==
    opened /\ i \in DOMAIN comment_count /\ <<i, comment_count[i]>> \in DOMAIN files

C20_StaysStuck ==
    /\ (IssueStuck /\ opened') =>
          /\ IssueStuck' /\ issue_count' = issue_count
          /\ hIssues' = hIssues
          /\ \A t \in Threads :
                (pc[t] = "ni_dir" /\ pc'[t] # "ni_dir") =>
                    /\ pc'[t] = "done"
                    /\ ret'[t] = Err("new_issue", "AlreadyExists", issue_count)
    /\ \A i \in IssueIds :
          (CommentStuck(i) /\ opened') =>
              /\ CommentStuck(i)' /\ comment_count'[i] = comment_count[i]
              /\ hComments'[i] = hComments[i]
              /\ \A t \in Threads :
                    (pc[t] = "nc_file" /\ pc'[t] # "nc_file" /\ loc[t].issue_id = i) =>
                        /\ pc'[t] = "done"
                        /\ ret'[t] = Err("new_comment", "AlreadyExists", i)

C20_UntilRebuild ==
    /\ (Fresh /\ hOpenedBy = "create_index") =>
          ~IssueStuck /\ \A i \in IssueIds : ~CommentStuck(i)
    /\ IssueStuck => hSavedIndex.issue_count \in dirs
    /\ \A i \in IssueIds :
          (CommentStuck(i) /\ i \in DOMAIN hSavedIndex.comment_count) =>
              <<i, hSavedIndex.comment_count[i]>> \in DOMAIN files

\* C20: once the directory named issue_count exists (the file named
\* comment_count[i] exists), for as long as the store stays open the counter
\* does not advance and the name stays taken, so every create_issue
\* (create_comment on i) returns the I/O error AlreadyExists and none
\* succeeds; the index that index.txt holds collides as well, and a store
\* just opened by a directory-scan rebuild has no counter that collides.
C20_CollisionIsPermanent == []C20_UntilRebuild /\ [][C20_StaysStuck]_vars

\* On a store reopened from a stale index.txt both create_comment on issue
\* 0 and then create_issue have collided, and both counters still collide.
C20_Witness ==
    /\ hOpenedBy = "read_index" /\ hCommentFailed
    /\ hIssues = <<>> /\ hComments[0] = <<>>
    /\ IssueStuck /\ CommentStuck(0)
    /\ pc[MainThread] = "done"
    /\ ret[MainThread] = Err("new_issue", "AlreadyExists", issue_count)

=============================================================================
